---- MODULE Spec2Model ----
(***************************************************************************)
(* EnhancedTradingBot (src/src/lib/enhanced-trading-bot.ts) as a state     *)
(* machine, and the components it is built from on their own: the history *)
(* windows of SmartTradingEngine and MarketAnalyzer, the engine's analysis *)
(* and the RiskManager's position sizing.                                  *)
(*                                                                         *)
(* Scheduling.  JavaScript runs one callback at a time.  A callback runs   *)
(* until it awaits real I/O; continuations of awaits on already settled    *)
(* promises are microtasks and run before the next timer, request or I/O   *)
(* completion.  The only awaits on real I/O are the broker calls (fetch in *)
(* connect, getAccountInfo, getMarketData, placeOrder, closeOrder), so an  *)
(* action of this model is the code between two broker awaits, and a call  *)
(* suspended at a broker await is an entry of `tasks`.                     *)
(*                                                                         *)
(* Units.  Prices are held in units of 1/PS of a price unit, so that the   *)
(* trailing stop, a rational with denominator 2*entryPrice, is an integer. *)
(* Quantities are in units of 0.0001, money in units of                    *)
(* price unit * 0.0001 ("cents" when the price unit is 100 dollars).       *)
(* maxDrawdown and winRate are kept as exact fractions <<num, den>>.       *)
(* Position age replaces Date.now() - position.timestamp, in minutes.      *)
(***************************************************************************)
EXTENDS Integers, Sequences, FiniteSets, TLC

\* unit: a component exercised on its own, outside the bot (NoUnit in the
\* specifications of the bot)
VARIABLES bot, tasks, ticks, calls, ev, unit

vars == <<bot, tasks, ticks, calls, ev, unit>>

-----------------------------------------------------------------------------
(* Bounds of the exploration *)

\* timer ticks explored
MaxTicks == 3
\* calls of start/stop/reset/configureBroker explored
MaxCalls == 3
\* market prices are 200, 400, ..., 200 * MaxPriceLevel price units
MaxPriceLevel == 2
\* minutes that pass in one step of the clock while a position is open
TimeStep == 25
\* timer ticks explored without a broker
MaxLocalTicks == 3
MaxLogTicks == 3
MaxFullTicks == 2
MaxSeenTicks == 2
\* samples pushed into a history window that starts HistoryMargin or fewer
\* samples below its capacity
MaxSamples == 4
HistoryMargin == 2
\* history lengths up to LenMargin samples around the minimum for an analysis
LenMargin == 2
MaxSnapTicks == 2
FullMargin == 2
\* calls suspended at a broker await at the same time
MaxInFlight == 2
\* engine history length of the warmed-up initial state
WarmHistory == 49

-----------------------------------------------------------------------------
(* Program constants *)

InitialCapital == 5000
TargetProfit == 10000
MaxActions == 50
maxHistory == 200
MinHistory == 50
MaxTimeframe == 45
maxHistoryLength == 50

RECURSIVE Factorial(_)
Factorial(n) == IF n <= 1 THEN 1 ELSE n * Factorial(n - 1)

\* price scale: a common multiple of 2 * p for every raw price p
PS == 400 * Factorial(MaxPriceLevel)

Prices == {200 * k * PS : k \in 1..MaxPriceLevel}

\* combined scores of the analysis, in percent
Scores == {5, 50, 80, 95}
RiskLevels == {"LOW", "HIGH", "EXTREME"}
\* average true range of the history, in scaled price units
ATRs == {0, 40 * PS}
\* what the analysis of one cycle depends on besides the price
Inputs == [score : Scores, risk : RiskLevels, atr : ATRs, throws : {FALSE}]
\* the same, or an analysis that throws
ThrowInputs == Inputs \cup [score : {50}, risk : {"LOW"}, atr : {0}, throws : {TRUE}]
\* the inputs explored together with the broker: a strong signal either way
BrokerInputs == [score : {5, 95}, risk : {"LOW"}, atr : {0}, throws : {FALSE}]
\* account balance reported by the broker
BrokerBalances == {8000}

Abs(x) == IF x < 0 THEN -x ELSE x
Max(a, b) == IF a >= b THEN a ELSE b
Min(a, b) == IF a <= b THEN a ELSE b

-----------------------------------------------------------------------------
(* SmartTradingEngine *)

\* getDefaultAnalysis(currentPrice)
getDefaultAnalysis(currentPrice) ==
  [signal |-> "HOLD", confidence |-> 20, probability |-> 50,
   direction |-> "NEUTRAL", riskLevel |-> "MEDIUM",
   entryPrice |-> currentPrice,
   stopLoss |-> (currentPrice \div 200) * 197,
   takeProfit |-> (currentPrice \div 200) * 209,
   positionSize |-> 100, timeframe |-> 15]

\* the score alone decides
deriveSignalByScore(score, confidence) ==
  IF score >= 80 THEN <<"STRONG_BUY", "BULLISH">>
  ELSE IF score >= 65 THEN <<"BUY", "BULLISH">>
  ELSE IF score <= 20 THEN <<"STRONG_SELL", "BEARISH">>
  ELSE IF score <= 35 THEN <<"SELL", "BEARISH">>
  ELSE <<"HOLD", "NEUTRAL">>

\* signal and direction from the combined score (percent) and confidence
deriveSignal(score, confidence) ==
  IF score >= 80 /\ confidence >= 80 THEN <<"STRONG_BUY", "BULLISH">>
  ELSE IF score >= 65 /\ confidence >= 65 THEN <<"BUY", "BULLISH">>
  ELSE IF score <= 20 /\ confidence >= 80 THEN <<"STRONG_SELL", "BEARISH">>
  ELSE IF score <= 35 /\ confidence >= 65 THEN <<"SELL", "BEARISH">>
  ELSE <<"HOLD", "NEUTRAL">>

\* generateSmartAnalysis(combinedScore, currentPrice, components)
generateSmartAnalysis(score, currentPrice, riskLevel, atr) ==
  LET confidence == Min(100, Abs(score - 50) * 2)
      sd == deriveSignal(score, confidence)
      stopLossDistance == Max(atr * 2, (currentPrice \div 200) * 3)
      takeProfitDistance == stopLossDistance * 3
      riskMultiplier == IF riskLevel = "LOW" THEN 3
                        ELSE IF riskLevel = "HIGH" THEN 1 ELSE 2
      positionSize == confidence * riskMultiplier
  IN [signal |-> sd[1], confidence |-> confidence,
      probability |-> Abs(score - 50) * 2,
      direction |-> sd[2], riskLevel |-> riskLevel,
      entryPrice |-> currentPrice,
      stopLoss |-> IF sd[2] = "BULLISH" THEN currentPrice - stopLossDistance
                   ELSE currentPrice + stopLossDistance,
      takeProfit |-> IF sd[2] = "BULLISH" THEN currentPrice + takeProfitDistance
                     ELSE currentPrice - takeProfitDistance,
      positionSize |-> Min(500, Max(50, positionSize)),
      timeframe |-> IF confidence > 80 THEN 45
                    ELSE IF confidence > 60 THEN 30 ELSE 20]

\* the default also on exactly MinHistory samples
analyzeMarketInclusive(len, currentPrice, in) ==
  IF len <= MinHistory THEN getDefaultAnalysis(currentPrice)
  ELSE generateSmartAnalysis(in.score, currentPrice, in.risk, in.atr)

\* analyzeMarket(currentData), the history having `len` samples
analyzeMarket(len, currentPrice, in) ==
  IF len < MinHistory THEN getDefaultAnalysis(currentPrice)
  ELSE generateSmartAnalysis(in.score, currentPrice, in.risk, in.atr)

\* updateMarketData: the history grows by one sample up to maxHistory
updateMarketData(len) == IF len + 1 > maxHistory THEN maxHistory ELSE len + 1

NoSa == getDefaultAnalysis(0)

-----------------------------------------------------------------------------
(* BotState *)

initializeState ==
  [config |-> [initialCapital |-> InitialCapital, targetProfit |-> TargetProfit],
   status |-> [isRunning |-> FALSE, currentBalance |-> InitialCapital,
               totalProfit |-> 0, targetReached |-> FALSE, tradesCount |-> 0,
               winRate |-> <<0, 1>>, maxDrawdown |-> <<0, 1>>],
   positions |-> << >>,
   trades |-> << >>,
   marketData |-> [price |-> 0],
   actions |-> << >>]

\* the entry is pushed at the end and the newest entries are dropped
addActionAppend(b, type, success) ==
  LET a == b.state.actions \o <<[type |-> type, success |-> success]>>
  IN IF ~b.logged THEN b
     ELSE [b EXCEPT !.state.actions =
             IF Len(a) > MaxActions THEN SubSeq(a, 1, MaxActions) ELSE a]

\* addAction(type, details, success); the log is write-only for the bot, and
\* it is recorded only in the runs that observe it (b.logged)
addAction(b, type, success) ==
  LET a == <<[type |-> type, success |-> success]>> \o b.state.actions
  IN IF ~b.logged THEN b
     ELSE [b EXCEPT !.state.actions =
             IF Len(a) > MaxActions THEN SubSeq(a, 1, MaxActions) ELSE a]

\* the positions array of epoch e: this.state.positions, or an array that a
\* reset() detached from the bot while a suspended call still refers to it
positionsOf(b, e) == IF e = b.epoch THEN b.state.positions ELSE b.old[e]

setPositions(b, e, arr) ==
  IF e = b.epoch THEN [b EXCEPT !.state.positions = arr]
  ELSE [b EXCEPT !.old[e] = arr]

\* this.state.positions.find(p => p.id === positionId), 0 when absent
findPosition(b, id) ==
  LET hits == {i \in 1..Len(b.state.positions) : b.state.positions[i].id = id}
  IN IF hits = {} THEN 0 ELSE CHOOSE i \in hits : \A j \in hits : i <= j

openIndices(arr) == {i \in 1..Len(arr) : arr[i].status = "OPEN"}

\* calculateUnrealizedPnL / calculateRealizedPnL
calculateUnrealizedPnL(p) ==
  IF p.type = "LONG"
  THEN ((p.currentPrice - p.entryPrice) \div PS) * p.quantity
  ELSE ((p.entryPrice - p.currentPrice) \div PS) * p.quantity

calculateRealizedPnL(p) == calculateUnrealizedPnL(p)

\* a stale total: the stored totalProfit is kept
totalProfitStale(st, cfg, balance) == st.totalProfit

\* closePosition: totalProfit = currentBalance - initialCapital
totalProfitOf(st, cfg, balance) == balance - cfg.initialCapital

\* closePosition after the broker close: mark CLOSED, record the Trade
closePositionCommit(b, ref, reason) ==
  LET arr == positionsOf(b, ref[1])
      p == [arr[ref[2]] EXCEPT !.status = "CLOSED",
                               !.currentPrice = b.state.marketData.price]
      profit == calculateRealizedPnL(p)
      trade == [position |-> p.id, type |-> p.type, entryPrice |-> p.entryPrice,
                exitPrice |-> p.currentPrice, quantity |-> p.quantity,
                profit |-> profit, reason |-> reason]
      b1 == setPositions(b, ref[1], [arr EXCEPT ![ref[2]] = p])
      balance == b1.state.status.currentBalance + profit
      b2 == [b1 EXCEPT !.state.trades = Append(@, trade),
                       !.state.status.currentBalance = balance,
                       !.state.status.totalProfit =
                           totalProfitOf(b1.state.status, b1.state.config, balance),
                       !.state.status.tradesCount = @ + 1]
  IN addAction(b2, "CLOSE_POSITION", TRUE)

\* closePosition up to the broker close: wait is TRUE when the call suspends
\* at broker.closeOrder, otherwise b is the state after the whole call
closePosition(b, positionId, reason) ==
  LET i == findPosition(b, positionId)
  IN IF i = 0 \/ b.state.positions[i].status # "OPEN"
     THEN [b |-> b, wait |-> FALSE, ref |-> <<0, 0>>]
     ELSE IF b.isConnectedToBroker /\ b.state.positions[i].brokerTicket
     THEN [b |-> b, wait |-> TRUE, ref |-> <<b.epoch, i>>]
     ELSE [b |-> closePositionCommit(b, <<b.epoch, i>>, reason),
           wait |-> FALSE, ref |-> <<0, 0>>]

-----------------------------------------------------------------------------
(* Exact fractions *)

RECURSIVE Gcd(_, _)
Gcd(a, b) == IF b = 0 THEN a ELSE Gcd(b, a % b)

\* n/d in lowest terms, n >= 0, d > 0
Frac(n, d) == LET g == Gcd(n, d) IN <<n \div g, d \div g>>

FracGreater(x, y) == x[1] * y[2] > y[1] * x[2]

-----------------------------------------------------------------------------
(* Calls in flight *)

NoPos == [id |-> 0, type |-> "LONG", entryPrice |-> 0, currentPrice |-> 0,
          quantity |-> 0, stopLoss |-> 0, takeProfit |-> 0, age |-> 0,
          status |-> "CLOSED", brokerTicket |-> FALSE]

\* a call: kind is the entry point (cycle, stop, start, config), pc the broker
\* await it is suspended at, the other fields its local variables
newTask(kind, b) ==
  [kind |-> kind, pc |-> "run", ctx |-> "none", sa |-> NoSa, ref |-> <<0, 0>>,
   reason |-> "none", arr |-> 0, idx |-> 0, rest |-> << >>, pos |-> NoPos,
   outer |-> "api", threw |-> FALSE, failed |-> "none",
   wasRunning |-> b.state.status.isRunning,
   wasTarget |-> b.state.status.targetReached]

\* the call has returned
done(b, t, ret) ==
  [b |-> b, ret |-> ret,
   t |-> [t EXCEPT !.pc = "done", !.ref = <<0, 0>>, !.arr = 0, !.pos = NoPos,
                   !.rest = << >>]]

\* the call is suspended at the broker await pc
suspended(b, t, pc) == [b |-> b, ret |-> "none", t |-> [t EXCEPT !.pc = pc]]

-----------------------------------------------------------------------------
(* Position management *)

\* the stop is trailed whatever the profit
profitAboveOnePercentAlways(p, currentPrice) == TRUE

\* profitPercent > 0.01
profitAboveOnePercent(p, currentPrice) ==
  IF p.type = "LONG"
  THEN (currentPrice - p.entryPrice) * 100 > p.entryPrice
  ELSE (p.entryPrice - currentPrice) * 100 > p.entryPrice

\* no distance is kept to the current price
trailDistanceNone(p, currentPrice, sa) == 0

\* trailDistance = atr * (1 + profitPercent * 2), atr taken from the signal
trailDistance(p, currentPrice, sa) ==
  LET entry == p.entryPrice \div PS
      gain == IF p.type = "LONG" THEN (currentPrice - p.entryPrice) \div PS
              ELSE (p.entryPrice - currentPrice) \div PS
  IN (Abs(sa.entryPrice - sa.stopLoss) * (entry + 2 * gain)) \div (2 * entry)

\* every candidate stop is taken
trailAcceptsAny(p, newStopLoss) == TRUE

\* the candidate stop is taken only if it tightens the stop
trailAccepts(p, newStopLoss) ==
  IF p.type = "LONG" THEN newStopLoss > p.stopLoss ELSE newStopLoss < p.stopLoss

\* updateSmartTrailingStop(position, smartAnalysis), position = array e, index i
updateSmartTrailingStop(b, e, i, sa) ==
  LET arr == positionsOf(b, e)
      p == arr[i]
      currentPrice == b.state.marketData.price
      newStopLoss == IF p.type = "LONG"
                     THEN currentPrice - trailDistance(p, currentPrice, sa)
                     ELSE currentPrice + trailDistance(p, currentPrice, sa)
  IN IF profitAboveOnePercent(p, currentPrice) /\ trailAccepts(p, newStopLoss)
     THEN addAction(setPositions(b, e, [arr EXCEPT ![i].stopLoss = newStopLoss]),
                    "UPDATE_SL", TRUE)
     ELSE b

\* the price checks are skipped
stopOrTargetHitNever(p, currentPrice) == FALSE

\* standard stop loss and take profit checks
stopOrTargetHit(p, currentPrice) ==
  IF p.type = "LONG"
  THEN currentPrice <= p.stopLoss \/ currentPrice >= p.takeProfit
  ELSE currentPrice >= p.stopLoss \/ currentPrice <= p.takeProfit

\* a reversed signal is not noticed
signalReversedNever(p, sa) == FALSE

\* smart analysis reversal detection
signalReversed(p, sa) ==
  \/ p.type = "LONG" /\ sa.signal \in {"STRONG_SELL", "SELL"}
  \/ p.type = "SHORT" /\ sa.signal \in {"STRONG_BUY", "BUY"}

\* shouldCloseSmartPosition(position, smartAnalysis)
shouldCloseSmartPosition(b, p, sa) ==
  IF stopOrTargetHit(p, b.state.marketData.price)
    THEN [close |-> TRUE, b |-> b]
  ELSE IF p.age > sa.timeframe
    THEN [close |-> TRUE, b |-> addAction(b, "ANALYSIS", TRUE)]
  ELSE IF signalReversed(p, sa)
    THEN [close |-> TRUE, b |-> addAction(b, "ANALYSIS", TRUE)]
  ELSE IF sa.riskLevel \in {"EXTREME", "HIGH"}
    THEN [close |-> TRUE, b |-> addAction(b, "ANALYSIS", TRUE)]
  ELSE IF sa.confidence < 50
    THEN [close |-> TRUE, b |-> addAction(b, "ANALYSIS", TRUE)]
  ELSE [close |-> FALSE, b |-> b]

\* the drawdown of the cycle always replaces the maximum
drawdownExceedsAlways(currentDrawdown, maxDrawdown) == TRUE

\* currentDrawdown > maxDrawdown
drawdownExceeds(currentDrawdown, maxDrawdown) ==
  FracGreater(currentDrawdown, maxDrawdown)

\* updateSmartBotMetrics
updateSmartBotMetrics(b) ==
  LET trades == b.state.trades
      n == Len(trades)
      wins == Cardinality({i \in 1..n : trades[i].profit > 0})
      cfg == b.state.config
      st == b.state.status
      currentDrawdown == Frac(Max(0, cfg.initialCapital - st.currentBalance),
                              cfg.initialCapital)
      b1 == IF n > 0 THEN [b EXCEPT !.state.status.winRate = Frac(wins * 100, n)]
            ELSE b
      b2 == IF drawdownExceeds(currentDrawdown, st.maxDrawdown)
            THEN [b1 EXCEPT !.state.status.maxDrawdown = currentDrawdown]
            ELSE b1
  IN IF n > 0 /\ n % 5 = 0 THEN addAction(b2, "ANALYSIS", TRUE) ELSE b2

\* the cycle ends after the metrics update
finishCycle(b, t) == done(updateSmartBotMetrics(b), t, "none")

\* only the strength of the signal is required
openConditionsLax(b, sa) == sa.signal \in {"STRONG_BUY", "STRONG_SELL"}

\* the conditions of shouldOpenSmartPosition other than hasOpenPositions
openConditions(b, sa) ==
  /\ sa.confidence >= 85
  /\ sa.signal \in {"STRONG_BUY", "STRONG_SELL"}
  /\ sa.riskLevel \in {"VERY_LOW", "LOW"}
  /\ sa.probability >= 80
  /\ b.state.status.maxDrawdown[1] * 10 < b.state.status.maxDrawdown[2]
  /\ b.state.status.currentBalance * 100 > b.state.config.initialCapital * 95
  /\ b.priceHistory >= MinHistory

\* shouldOpenSmartPosition(smartAnalysis)
shouldOpenSmartPosition(b, sa) ==
  IF openIndices(b.state.positions) # {} THEN [open |-> FALSE, b |-> b]
  ELSE IF ~openConditions(b, sa)
    THEN [open |-> FALSE, b |-> addAction(b, "ANALYSIS", TRUE)]
  ELSE [open |-> TRUE, b |-> b]

\* openSmartPosition after placeRealOrder: push the position
openSmartPositionCommit(b, t, position) ==
  finishCycle(addAction([b EXCEPT !.state.positions = Append(@, position)],
                        "OPEN_POSITION", TRUE), t)

\* openSmartPosition(smartAnalysis) up to the broker's placeOrder
openSmartPosition(b, t) ==
  LET sa == t.sa
      isLong == sa.signal \in {"STRONG_BUY", "BUY"}
      position == [id |-> b.nextId,
                   type |-> IF isLong THEN "LONG" ELSE "SHORT",
                   entryPrice |-> sa.entryPrice, currentPrice |-> sa.entryPrice,
                   quantity |-> sa.positionSize, stopLoss |-> sa.stopLoss,
                   takeProfit |-> sa.takeProfit, age |-> 0, status |-> "OPEN",
                   brokerTicket |-> FALSE]
      b1 == [b EXCEPT !.nextId = @ + 1]
  IN IF b.isConnectedToBroker
     THEN suspended(b1, [t EXCEPT !.pos = position, !.arr = 0], "placeOrder")
     ELSE openSmartPositionCommit(b1, t, position)

\* the cycle after manageSmartPositions
openPhase(b, t) ==
  LET so == shouldOpenSmartPosition(b, t.sa)
  IN IF so.open THEN openSmartPosition(so.b, t) ELSE finishCycle(so.b, t)

\* manageSmartPositions(smartAnalysis) from index i of the array it iterates
RECURSIVE manageSmartPositions(_, _, _)
manageSmartPositions(b, t, i) ==
  LET arr == positionsOf(b, t.arr)
  IN IF i > Len(arr) THEN openPhase(b, t)
     ELSE IF arr[i].status # "OPEN" THEN manageSmartPositions(b, t, i + 1)
     ELSE
       LET p1 == [arr[i] EXCEPT !.currentPrice = b.state.marketData.price]
           b1 == setPositions(b, t.arr, [arr EXCEPT ![i] = p1])
           b2 == updateSmartTrailingStop(b1, t.arr, i, t.sa)
           sc == shouldCloseSmartPosition(b2, positionsOf(b2, t.arr)[i], t.sa)
           cp == closePosition(sc.b, p1.id, "Smart exit condition triggered")
       IN IF ~sc.close THEN manageSmartPositions(sc.b, t, i + 1)
          ELSE IF cp.wait
            THEN suspended(cp.b, [t EXCEPT !.ctx = "manage", !.ref = cp.ref,
                                           !.idx = i,
                                           !.reason = "Smart exit condition triggered"],
                           "closeOrder")
          ELSE manageSmartPositions(cp.b, t, i + 1)

\* the catch block stops the bot as well
cycleCatchStops(b, t) ==
  done(addAction([b EXCEPT !.state.status.isRunning = FALSE, !.intervalId = 0],
                 "UPDATE", FALSE), t, "none")

\* runSmartTradingCycle: catch (error) { addAction('UPDATE', ..., false) }
cycleCatch(b, t) == done(addAction(b, "UPDATE", FALSE), t, "none")

\* the cycle from the market sample on: engine update, analysis (which may
\* throw into the catch block), management
cycleBody(b, t, price, in) ==
  LET len == updateMarketData(b.priceHistory)
      b1 == [b EXCEPT !.state.marketData.price = price, !.priceHistory = len]
      sa == analyzeMarket(len, price, in)
  IN IF in.throws THEN cycleCatch(b1, [t EXCEPT !.threw = TRUE])
     ELSE manageSmartPositions(b1, [t EXCEPT !.sa = sa, !.arr = b.epoch], 1)

-----------------------------------------------------------------------------
(* stop, start, configureBroker, reset *)

\* stop(): isRunning = false, clearInterval(this.intervalId)
stopHalt(b) == [b EXCEPT !.state.status.isRunning = FALSE, !.intervalId = 0]

\* stop() after closeAllPositions; the cycle that latched the target logs it
stopFinish(b, t) ==
  LET b1 == addAction(b, "STOP", TRUE)
  IN IF t.kind = "cycle" THEN done(addAction(b1, "TARGET_REACHED", TRUE), t, "none")
     ELSE done(b1, t, "true")

\* closeAllPositions(reason) over the positions still to close, t.rest
RECURSIVE closeAllPositions(_, _)
closeAllPositions(b, t) ==
  IF t.rest = << >> THEN stopFinish(b, t)
  ELSE LET cp == closePosition(b, Head(t.rest), "Manual stop")
           t1 == [t EXCEPT !.rest = Tail(t.rest)]
       IN IF cp.wait
          THEN suspended(cp.b, [t1 EXCEPT !.ctx = "closeAll", !.ref = cp.ref,
                                          !.reason = "Manual stop"], "closeOrder")
          ELSE closeAllPositions(cp.b, t1)

\* the ids of the OPEN positions, in array order
RECURSIVE openIds(_)
openIds(arr) ==
  IF arr = << >> THEN << >>
  ELSE IF Head(arr).status = "OPEN" THEN <<Head(arr).id>> \o openIds(Tail(arr))
  ELSE openIds(Tail(arr))

\* stop()
stop(b, t) ==
  LET b1 == stopHalt(b)
  IN closeAllPositions(b1, [t EXCEPT !.rest = openIds(b1.state.positions)])

\* start() never refuses
startRefusedNever(b) == FALSE

\* start(): if (this.state.status.targetReached) return false
startRefused(b) == b.state.status.targetReached

\* start() from isRunning = true on: a new interval replaces intervalId, and
\* an interval that was not cleared keeps firing
startRun(b, t) ==
  LET b1 == [b EXCEPT !.state.status.isRunning = TRUE,
                      !.leaked = @ + b.intervalId, !.intervalId = 1]
  IN done(addAction(b1, "START", TRUE), t, "true")

\* configureBroker(config) has returned `connected` to its caller
configureBrokerReturn(b, t, connected) ==
  IF t.outer = "api" THEN done(b, t, IF connected THEN "true" ELSE "false")
  ELSE IF ~connected THEN done(addAction(b, "START", FALSE), t, "false")
  ELSE startRun(b, t)

\* configureBroker(config) up to the await of connectToBroker
configureBroker(b, t) == suspended([b EXCEPT !.brokerConfig = TRUE], t, "connect")

\* configureBroker after connectToBroker returned
configureBrokerConnected(b, t, connected) ==
  LET b1 == [b EXCEPT !.isConnectedToBroker = connected]
  IN IF connected THEN suspended(b1, t, "accountInfo")
     ELSE configureBrokerReturn(addAction(b1, "BROKER_ERROR", FALSE), t, FALSE)

\* the account balance is adopted and the target latch cleared
adoptBalanceUnlatch(state, balance) ==
  [state EXCEPT !.status.currentBalance = balance,
                !.status.targetReached = FALSE,
                !.config.initialCapital = balance]

\* configureBroker: currentBalance and initialCapital become the balance
adoptBalance(state, balance) ==
  [state EXCEPT !.status.currentBalance = balance,
                !.config.initialCapital = balance]

\* configureBroker after getAccountInfo returned a balance, or threw (0)
configureBrokerAccount(b, t, balance) ==
  IF balance = 0
  THEN configureBrokerReturn(addAction(b, "BROKER_ERROR", FALSE), t, FALSE)
  ELSE configureBrokerReturn(
         addAction([b EXCEPT !.state = adoptBalance(@, balance)],
                   "BROKER_CONNECTED", TRUE), t, TRUE)

\* start()
start(b, t) ==
  IF startRefused(b) THEN done(addAction(b, "START", FALSE), t, "false")
  ELSE IF b.brokerConfig /\ ~b.isConnectedToBroker
    THEN configureBroker(b, [t EXCEPT !.outer = "start"])
  ELSE startRun(b, t)

\* the objects a caller reaches through the copy getState() gave it: the
\* copy is shallow, so its status, config, positions and trades are the
\* objects of the state it was taken from
snapshotView(st) ==
  [status |-> st.status, config |-> st.config, positions |-> st.positions,
   trades |-> st.trades]

NoSnap == [epoch |-> 0, taken |-> snapshotView(initializeState),
           frozen |-> snapshotView(initializeState)]

\* what the holder of the last snapshot reads in it now: the live objects of
\* this.state, or those of the state object a reset() has dropped since
snapshotNow(b) ==
  IF b.snap.epoch = b.epoch THEN snapshotView(b.state) ELSE b.snap.frozen

\* getState(): return { ...this.state }
getStateCall(b) ==
  [b EXCEPT !.snap = [epoch |-> b.epoch, taken |-> snapshotView(b.state),
                      frozen |-> snapshotView(b.state)]]

\* reset(): the state object is replaced; calls in flight keep the old array
reset(b) ==
  LET b1 == [b EXCEPT !.intervalId = 0,
                      !.snap.frozen = snapshotNow(b),
                      !.old = Append(@, b.state.positions),
                      !.epoch = @ + 1,
                      !.state = initializeState]
  IN addAction(b1, "RESET", TRUE)

\* the target check is skipped
targetProfitReachedNever(b) == FALSE

\* runSmartTradingCycle: totalProfit >= targetProfit
targetProfitReached(b) ==
  b.state.status.totalProfit >= b.state.config.targetProfit

\* runSmartTradingCycle() up to its first broker await
runSmartTradingCycle(b, t, price, in) ==
  IF targetProfitReached(b)
  THEN stop([b EXCEPT !.state.status.targetReached = TRUE], t)
  ELSE IF b.isConnectedToBroker THEN suspended(b, t, "marketData")
  ELSE cycleBody(b, t, price, in)

\* closePosition resumes after broker.closeOrder, then its caller goes on
closeOrderReturned(b, t, ok) ==
  LET b1 == IF ok THEN addAction(b, "BROKER_CLOSE", TRUE)
            ELSE addAction(b, "BROKER_ERROR", FALSE)
      b2 == closePositionCommit(b1, t.ref, t.reason)
      t1 == [t EXCEPT !.ref = <<0, 0>>,
                      !.failed = IF ok THEN "none" ELSE "closeOrder"]
  IN IF t.ctx = "manage" THEN manageSmartPositions(b2, t1, t.idx + 1)
     ELSE closeAllPositions(b2, t1)

\* a failed broker order abandons the position
placeOrderReturnedFatal(b, t, ok) ==
  IF ok THEN openSmartPositionCommit(addAction(b, "BROKER_ORDER", TRUE), t,
                                     [t.pos EXCEPT !.brokerTicket = TRUE])
  ELSE finishCycle(addAction(b, "BROKER_ERROR", FALSE),
                   [t EXCEPT !.failed = "placeOrder"])

\* placeRealOrder resumes after broker.placeOrder, then the position is pushed
placeOrderReturned(b, t, ok) ==
  IF ok THEN openSmartPositionCommit(addAction(b, "BROKER_ORDER", TRUE), t,
                                     [t.pos EXCEPT !.brokerTicket = TRUE])
  ELSE openSmartPositionCommit(addAction(b, "BROKER_ERROR", FALSE),
                               [t EXCEPT !.failed = "placeOrder"], t.pos)

-----------------------------------------------------------------------------
(* The state machine *)

NoUnit == [kind |-> "none"]

NewBot(len, logged) ==
  [state |-> [initializeState EXCEPT !.actions =
                IF logged /\ len > 0 THEN <<[type |-> "RESET", success |-> TRUE]>>
                ELSE << >>],
   logged |-> logged,
   intervalId |-> 0, leaked |-> 0,
   brokerConfig |-> FALSE, isConnectedToBroker |-> FALSE,
   priceHistory |-> len, epoch |-> 1, old |-> << >>, nextId |-> 1,
   snap |-> NoSnap]

\* ev: the call that returned in the last step, its result, the flags
\* isRunning and targetReached as they were when the call was made, and the
\* analysis (sa) of the trading cycle that ran in the last step, and whether
\* that cycle ended in its catch block (threw)
NoEv ==
  [call |-> "none", ret |-> "none", wasRunning |-> FALSE, wasTarget |-> FALSE,
   sa |-> NoSa, threw |-> FALSE, failed |-> "none"]

\* the bot as constructed, or warmed up: started, ticked WarmHistory times
\* (no position can open on fewer than 50 samples), stopped and reset
Init ==
  /\ bot \in {NewBot(0, FALSE), NewBot(WarmHistory, FALSE)}
  /\ tasks = << >>
  /\ ticks = 0
  /\ calls = 0
  /\ ev = NoEv
  /\ unit = NoUnit

RemoveAt(seq, k) == SubSeq(seq, 1, k - 1) \o SubSeq(seq, k + 1, Len(seq))

\* detached arrays that no call in flight refers to are garbage
collect(b, ts) ==
  [b EXCEPT !.old = [e \in 1..Len(@) |->
     IF \E k \in 1..Len(ts) : ts[k].arr = e \/ ts[k].ref[1] = e
     THEN @[e] ELSE << >>]]

\* a suspended call as it is kept: what ev reports of a step is not part of it
stored(t) == [t EXCEPT !.failed = "none"]

evOf(r) ==
  [call |-> IF r.t.pc = "done" /\ r.ret # "none"
            THEN (IF r.t.outer = "start" THEN "start" ELSE r.t.kind) ELSE "none",
   ret |-> r.ret,
   wasRunning |-> r.t.pc = "done" /\ r.ret # "none" /\ r.t.wasRunning,
   wasTarget |-> r.t.pc = "done" /\ r.ret # "none" /\ r.t.wasTarget,
   sa |-> IF r.t.kind = "cycle" THEN r.t.sa ELSE NoSa,
   threw |-> r.t.threw,
   failed |-> r.t.failed]

\* a new call ran to its first broker await or to its end
Begin(r) ==
  LET ts == IF r.t.pc = "done" THEN tasks ELSE Append(tasks, stored(r.t))
  IN /\ Len(ts) <= MaxInFlight
     /\ tasks' = ts
     /\ bot' = collect(r.b, ts)
     /\ ev' = evOf(r)
     /\ UNCHANGED unit

\* the call tasks[k] ran on from its broker await
Resume(k, r) ==
  LET ts == IF r.t.pc = "done" THEN RemoveAt(tasks, k)
            ELSE [tasks EXCEPT ![k] = stored(r.t)]
  IN /\ tasks' = ts
     /\ bot' = collect(r.b, ts)
     /\ ev' = evOf(r)
     /\ UNCHANGED <<ticks, calls, unit>>

Start ==
  /\ calls < MaxCalls
  /\ calls' = calls + 1
  /\ Begin(start(bot, newTask("start", bot)))
  /\ UNCHANGED ticks

Stop ==
  /\ calls < MaxCalls
  /\ calls' = calls + 1
  /\ Begin(stop(bot, newTask("stop", bot)))
  /\ UNCHANGED ticks

ConfigureBroker ==
  /\ calls < MaxCalls
  /\ calls' = calls + 1
  /\ Begin(configureBroker(bot, newTask("config", bot)))
  /\ UNCHANGED ticks

Reset ==
  /\ calls < MaxCalls
  /\ calls' = calls + 1
  /\ bot' = collect(reset(bot), tasks)
  /\ ev' = NoEv
  /\ UNCHANGED <<tasks, ticks, unit>>

\* a live interval fires
TickWith(inputs, maxTicks) ==
  /\ bot.intervalId + bot.leaked > 0
  /\ ticks < maxTicks
  /\ ticks' = ticks + 1
  /\ \E price \in Prices, in \in inputs :
       Begin(runSmartTradingCycle(bot, newTask("cycle", bot), price, in))
  /\ UNCHANGED calls

ConnectReturns ==
  \E k \in 1..Len(tasks) :
    /\ tasks[k].pc = "connect"
    /\ \E connected \in BOOLEAN :
         Resume(k, configureBrokerConnected(bot, tasks[k], connected))

AccountInfoReturns ==
  \E k \in 1..Len(tasks) :
    /\ tasks[k].pc = "accountInfo"
    /\ \E balance \in BrokerBalances \cup {0} :
         Resume(k, configureBrokerAccount(bot, tasks[k], balance))

\* updateSmartMarketData after broker.getMarketData returned a sample, or
\* threw and generateUltraRealisticData made a synthetic one
marketDataReturned(b, t, ok, price, in) ==
  cycleBody(b, [t EXCEPT !.failed = IF ok THEN "none" ELSE "marketData"],
            price, in)

MarketDataReturns ==
  \E k \in 1..Len(tasks) :
    /\ tasks[k].pc = "marketData"
    /\ \E ok \in BOOLEAN, price \in Prices, in \in BrokerInputs :
         Resume(k, marketDataReturned(bot, tasks[k], ok, price, in))

PlaceOrderReturns ==
  \E k \in 1..Len(tasks) :
    /\ tasks[k].pc = "placeOrder"
    /\ \E ok \in BOOLEAN :
         Resume(k, placeOrderReturned(bot, tasks[k], ok))

CloseOrderReturns ==
  \E k \in 1..Len(tasks) :
    /\ tasks[k].pc = "closeOrder"
    /\ \E ok \in BOOLEAN :
         Resume(k, closeOrderReturned(bot, tasks[k], ok))

ageArray(arr) ==
  [i \in 1..Len(arr) |->
     IF arr[i].status = "OPEN" THEN [arr[i] EXCEPT !.age = @ + TimeStep] ELSE arr[i]]

\* time passes; only the age of an open position shows it
Elapse ==
  /\ \/ \E i \in openIndices(bot.state.positions) :
          bot.state.positions[i].age <= MaxTimeframe
     \/ \E k \in 1..Len(tasks) :
          tasks[k].pc = "placeOrder" /\ tasks[k].pos.age <= MaxTimeframe
  /\ bot' = [bot EXCEPT !.state.positions = ageArray(@),
                        !.old = [e \in 1..Len(@) |-> ageArray(@[e])]]
  /\ tasks' = [k \in 1..Len(tasks) |->
                 IF tasks[k].pc = "placeOrder"
                 THEN [tasks[k] EXCEPT !.pos.age = @ + TimeStep] ELSE tasks[k]]
  /\ ev' = NoEv
  /\ UNCHANGED <<ticks, calls, unit>>

Tick == TickWith(BrokerInputs, MaxTicks)

\* the bot with its broker, over a time shorter than any hold timeframe
Next ==
  \/ Start
  \/ Stop
  \/ ConfigureBroker
  \/ Reset
  \/ Tick
  \/ ConnectReturns
  \/ AccountInfoReturns
  \/ MarketDataReturns
  \/ PlaceOrderReturns
  \/ CloseOrderReturns

Spec == Init /\ [][Next]_vars

LocalStart == Start
LocalStop == Stop
LocalReset == Reset
LocalTick == TickWith(Inputs, MaxLocalTicks)

\* the bot without a broker (brokerConfig is never set): every call is atomic
NextLocal ==
  \/ LocalStart
  \/ LocalStop
  \/ LocalReset
  \/ LocalTick
  \/ Elapse

SpecLocal == Init /\ [][NextLocal]_vars

GetState ==
  /\ calls < MaxCalls
  /\ calls' = calls + 1
  /\ bot' = getStateCall(bot)
  /\ ev' = NoEv
  /\ UNCHANGED <<tasks, ticks, unit>>

SnapStart == Start
SnapStop == Stop
SnapReset == Reset
SnapTick == TickWith(Inputs, MaxSnapTicks)

\* the bot without a broker and a caller that keeps what getState() returned
NextSnap ==
  \/ SnapStart
  \/ SnapStop
  \/ SnapReset
  \/ SnapTick
  \/ GetState

SpecSnap == Init /\ [][NextSnap]_vars

\* the bot as in Init, with its action log recorded
InitLog ==
  /\ bot \in {NewBot(0, TRUE), NewBot(WarmHistory, TRUE)}
  /\ tasks = << >>
  /\ ticks = 0
  /\ calls = 0
  /\ ev = NoEv
  /\ unit = NoUnit

LogStart == Start
LogStop == Stop
LogReset == Reset
LogTick == TickWith(ThrowInputs, MaxLogTicks)

\* the bot without a broker, observed with its action log
NextLog ==
  \/ LogStart
  \/ LogStop
  \/ LogReset
  \/ LogTick

SpecLog == InitLog /\ [][NextLog]_vars

\* the log after start() and k ticks on fewer than MinHistory samples: every
\* such tick declines to open and logs one ANALYSIS entry
ColdLog(k) ==
  [i \in 1..(k + 1) |->
     [type |-> IF i <= k THEN "ANALYSIS" ELSE "START", success |-> TRUE]]

\* the bot started and ticked k times, its log full or nearly full
InitFull ==
  /\ bot \in {[NewBot(k, TRUE) EXCEPT !.state.actions = ColdLog(k),
                                      !.state.status.isRunning = TRUE,
                                      !.state.marketData.price = price,
                                      !.intervalId = 1] :
               k \in (MaxActions - FullMargin)..(MaxActions - 1), price \in Prices}
  /\ tasks = << >>
  /\ ticks = 0
  /\ calls = 0
  /\ ev = NoEv
  /\ unit = NoUnit

FullStart == Start
FullStop == Stop
FullReset == Reset
FullTick == TickWith(Inputs, MaxFullTicks)

\* the bot without a broker, from a log that is full or nearly full
NextFull ==
  \/ FullStart
  \/ FullStop
  \/ FullReset
  \/ FullTick

SpecFull == InitFull /\ [][NextFull]_vars

SeenStart == Start
SeenStop == Stop
SeenConfigureBroker == ConfigureBroker
SeenReset == Reset
SeenTick == TickWith(BrokerInputs, MaxSeenTicks)
SeenConnectReturns == ConnectReturns
SeenAccountInfoReturns == AccountInfoReturns
SeenMarketDataReturns == MarketDataReturns
SeenPlaceOrderReturns == PlaceOrderReturns
SeenCloseOrderReturns == CloseOrderReturns

\* the bot with its broker, observed with its action log
NextSeen ==
  \/ SeenStart
  \/ SeenStop
  \/ SeenConfigureBroker
  \/ SeenReset
  \/ SeenTick
  \/ SeenConnectReturns
  \/ SeenAccountInfoReturns
  \/ SeenMarketDataReturns
  \/ SeenPlaceOrderReturns
  \/ SeenCloseOrderReturns

SpecSeen == InitLog /\ [][NextSeen]_vars

-----------------------------------------------------------------------------
(* The history windows on their own *)

\* the window is cut at its newest end
updateMarketDataArraysLifo(e, data) ==
  LET e1 == [priceHistory |-> Append(e.priceHistory, data.price),
             volumeHistory |-> Append(e.volumeHistory, data.volume),
             highHistory |-> Append(e.highHistory, data.price),
             lowHistory |-> Append(e.lowHistory, data.price),
             timestampHistory |-> Append(e.timestampHistory, data.timestamp)]
  IN IF Len(e1.priceHistory) > maxHistory
     THEN [f \in DOMAIN e1 |-> SubSeq(e1[f], 1, maxHistory)]
     ELSE e1

\* SmartTradingEngine.updateMarketData(data) on the five history arrays
updateMarketDataArrays(e, data) ==
  LET price == data.price
      high == IF data.high24h # 0 THEN data.high24h ELSE (price \div 1000) * 1001
      low == IF data.low24h # 0 THEN data.low24h ELSE (price \div 1000) * 999
      e1 == [priceHistory |-> Append(e.priceHistory, price),
             volumeHistory |-> Append(e.volumeHistory, data.volume),
             highHistory |-> Append(e.highHistory, high),
             lowHistory |-> Append(e.lowHistory, low),
             timestampHistory |-> Append(e.timestampHistory, data.timestamp)]
  IN IF Len(e1.priceHistory) > maxHistory
     THEN [f \in DOMAIN e1 |-> Tail(e1[f])]
     ELSE e1

\* MarketAnalyzer.calculateIndicators(marketData): the part that keeps the
\* price and volume histories
calculateIndicatorsArrays(a, data) ==
  LET a1 == [priceHistory |-> Append(a.priceHistory, data.price),
             volumeHistory |-> Append(a.volumeHistory, data.volume)]
  IN IF Len(a1.priceHistory) > maxHistoryLength
     THEN [f \in DOMAIN a1 |-> Tail(a1[f])]
     ELSE a1

\* the samples a running bot hands on: price, volume, 24 h high and low (0
\* when the feed has none)
Samples ==
  [price : Prices, volume : {7}, high24h : {0, 500 * PS}, low24h : {0},
   timestamp : {0}]

\* the i-th sample of a history of k samples, the last one taken at time 0
PastSample(i, k) ==
  [price |-> 200 * PS * (1 + (i % 2)), volume |-> i % 3, high24h |-> 0,
   low24h |-> 0, timestamp |-> i - k]

\* the engine after its first k samples, k <= maxHistory: nothing was dropped
EngineAfter(k) ==
  [priceHistory |-> [i \in 1..k |-> PastSample(i, k).price],
   volumeHistory |-> [i \in 1..k |-> PastSample(i, k).volume],
   highHistory |-> [i \in 1..k |-> (PastSample(i, k).price \div 1000) * 1001],
   lowHistory |-> [i \in 1..k |-> (PastSample(i, k).price \div 1000) * 999],
   timestampHistory |-> [i \in 1..k |-> PastSample(i, k).timestamp]]

\* the analyzer after its first k samples, k <= maxHistoryLength
AnalyzerAfter(k) ==
  [priceHistory |-> [i \in 1..k |-> PastSample(i, k).price],
   volumeHistory |-> [i \in 1..k |-> PastSample(i, k).volume]]

\* an engine and an analyzer that have taken nearly as many samples as
\* their windows hold
InitHistory ==
  /\ bot = NewBot(0, FALSE)
  /\ tasks = << >>
  /\ ticks = 0
  /\ calls = 0
  /\ ev = NoEv
  /\ unit \in {[kind |-> "history",
                engine |-> EngineAfter(k), enginePushes |-> 0,
                analyzer |-> AnalyzerAfter(j), analyzerPushes |-> 0] :
               k \in (maxHistory - HistoryMargin)..maxHistory,
               j \in (maxHistoryLength - HistoryMargin)..maxHistoryLength}

EngineUpdate ==
  /\ unit.enginePushes < MaxSamples
  /\ \E data \in Samples :
       unit' = [unit EXCEPT
                  !.engine = updateMarketDataArrays(
                               @, [data EXCEPT !.timestamp = unit.enginePushes + 1]),
                  !.enginePushes = @ + 1]
  /\ UNCHANGED <<bot, tasks, ticks, calls, ev>>

AnalyzerUpdate ==
  /\ unit.analyzerPushes < MaxSamples
  /\ \E data \in Samples :
       unit' = [unit EXCEPT
                  !.analyzer = calculateIndicatorsArrays(@, data),
                  !.analyzerPushes = @ + 1]
  /\ UNCHANGED <<bot, tasks, ticks, calls, ev>>

NextHistory ==
  \/ EngineUpdate
  \/ AnalyzerUpdate

SpecHistory == InitHistory /\ [][NextHistory]_vars

-----------------------------------------------------------------------------
(* The engine's analysis on its own *)

\* every combined score from 0 to 1, in percent
AllScores == 0..100

\* history lengths: the 19 samples of a short history and those around MinHistory
Lens == {19} \cup ((MinHistory - LenMargin)..(MinHistory + LenMargin))

InitAnalysis ==
  /\ bot = NewBot(0, FALSE)
  /\ tasks = << >>
  /\ ticks = 0
  /\ calls = 0
  /\ ev = NoEv
  /\ unit \in {[kind |-> "analysis", len |-> len, price |-> price,
                in |-> [score |-> score, risk |-> "LOW", atr |-> 0, throws |-> FALSE],
                fn |-> "none", sa |-> NoSa] :
               len \in Lens, price \in Prices, score \in AllScores}

AnalyzeMarket ==
  /\ unit.fn = "none"
  /\ unit' = [unit EXCEPT !.fn = "analyzeMarket",
                          !.sa = analyzeMarket(unit.len, unit.price, unit.in)]
  /\ UNCHANGED <<bot, tasks, ticks, calls, ev>>

GenerateSmartAnalysis ==
  /\ unit.fn = "none"
  /\ unit' = [unit EXCEPT !.fn = "generateSmartAnalysis",
                          !.sa = generateSmartAnalysis(unit.in.score, unit.price,
                                                       unit.in.risk, unit.in.atr)]
  /\ UNCHANGED <<bot, tasks, ticks, calls, ev>>

NextAnalysis ==
  \/ AnalyzeMarket
  \/ GenerateSmartAnalysis

SpecAnalysis == InitAnalysis /\ [][NextAnalysis]_vars

-----------------------------------------------------------------------------
(* RiskManager on its own; amounts are exact fractions <<num, den>> *)

\* calculatePositionSize(accountBalance, riskPercentage, stopLossDistance,
\* currentPrice), the risk in percent
calculatePositionSize(accountBalance, riskPercent, stopLossDistance, currentPrice) ==
  IF stopLossDistance[1] <= 0 THEN <<0, 1>>
  ELSE LET quantity == Frac(accountBalance * riskPercent * stopLossDistance[2],
                            100 * stopLossDistance[1] * currentPrice)
       IN IF FracGreater(quantity, <<1, 1000>>) THEN quantity ELSE <<1, 1000>>

\* calculateOptimalStopLoss(calculateVolatility(atr, price), atr)
calculateOptimalStopLoss(atr, currentPrice) ==
  LET volatilityMultiplier ==
        IF 50 * atr > currentPrice THEN <<50 * atr, currentPrice>> ELSE <<1, 1>>
  IN Frac(3 * atr * volatilityMultiplier[1], 2 * volatilityMultiplier[2])

\* calculateRiskMetrics(marketData, indicators, accountBalance,
\* maxRiskPerTrade): its positionSize
calculateRiskMetrics(currentPrice, atr, accountBalance, riskPercent) ==
  calculatePositionSize(accountBalance, riskPercent,
                        calculateOptimalStopLoss(atr, currentPrice), currentPrice)

\* balances, risk per trade in percent, ATRs, stop distances and prices
RiskInputs ==
  [accountBalance : {50, 5000, 100000}, riskPercent : {1, 2}, atr : {0, 1, 10},
   stopLossDistance : {0, 10, 40}, currentPrice : {100, 45000}]

InitRisk ==
  /\ bot = NewBot(0, FALSE)
  /\ tasks = << >>
  /\ ticks = 0
  /\ calls = 0
  /\ ev = NoEv
  /\ unit \in {[kind |-> "risk", in |-> in, fn |-> "none", positionSize |-> <<0, 1>>] :
               in \in RiskInputs}

CalculateRiskMetrics ==
  /\ unit.fn = "none"
  /\ unit' = [unit EXCEPT
                !.fn = "calculateRiskMetrics",
                !.positionSize =
                   calculateRiskMetrics(unit.in.currentPrice, unit.in.atr,
                                        unit.in.accountBalance, unit.in.riskPercent)]
  /\ UNCHANGED <<bot, tasks, ticks, calls, ev>>

CalculatePositionSize ==
  /\ unit.fn = "none"
  /\ unit' = [unit EXCEPT
                !.fn = "calculatePositionSize",
                !.positionSize =
                   calculatePositionSize(unit.in.accountBalance, unit.in.riskPercent,
                                         <<unit.in.stopLossDistance, 1>>,
                                         unit.in.currentPrice)]
  /\ UNCHANGED <<bot, tasks, ticks, calls, ev>>

NextRisk ==
  \/ CalculateRiskMetrics
  \/ CalculatePositionSize

SpecRisk == InitRisk /\ [][NextRisk]_vars

-----------------------------------------------------------------------------

\* getState(): a shallow copy of this.state
getState(b) == b.state

-----------------------------------------------------------------------------
(* Properties *)

status == bot.state.status
config == bot.state.config
positions == bot.state.positions
trades == bot.state.trades

cyclesInFlight == {k \in 1..Len(tasks) : tasks[k].kind = "cycle"}

\* C1: in every reachable state at most one position has status OPEN
C1_AtMostOneOpen == Cardinality(openIndices(positions)) <= 1

\* C2: at most one trading cycle is in flight at any time
C2_OneCycleInFlight == Cardinality(cyclesInFlight) <= 1

\* C3: every CLOSED position has exactly one Trade in state.trades
C3_OneTradePerClose ==
  \A i \in 1..Len(positions) :
    positions[i].status = "CLOSED" =>
      Cardinality({j \in 1..Len(trades) : trades[j].position = positions[i].id}) = 1

\* C4: after every step that appends to state.trades,
\* totalProfit = currentBalance - initialCapital
C4_ProfitAfterTrade ==
  [][Len(bot'.state.trades) > Len(trades) =>
       bot'.state.status.totalProfit =
         bot'.state.status.currentBalance - bot'.state.config.initialCapital]_vars

\* a Trade was recorded after the broker balance replaced the capital
C4_Witness ==
  /\ Len(trades) > 0
  /\ config.initialCapital # InitialCapital
  /\ status.totalProfit # 0
  /\ status.totalProfit = status.currentBalance - config.initialCapital

\* C5: in every reachable state totalProfit = currentBalance - initialCapital
C5_ProfitIdentity ==
  status.totalProfit = status.currentBalance - config.initialCapital

\* C6: a start() made while targetReached is true returns false and changes
\* neither isRunning nor the timers
C6_StartRefusedAfterTarget ==
  [][(ev'.call = "start" /\ ev'.wasTarget) =>
       /\ ev'.ret = "false"
       /\ bot'.state.status.isRunning = status.isRunning
       /\ bot'.intervalId = bot.intervalId
       /\ bot'.leaked = bot.leaked]_vars

\* a start() made after the target was latched has returned false
C6_Witness ==
  ev.call = "start" /\ ev.wasTarget /\ ev.ret = "false" /\ status.targetReached

\* C7: in every reachable state targetReached implies not isRunning
C7_TargetStops == status.targetReached => ~status.isRunning

\* C8: targetReached goes from true to false only in a reset(), the step
\* that replaces the state object
C8_TargetLatch ==
  [][(status.targetReached /\ ~bot'.state.status.targetReached) =>
       bot'.epoch # bot.epoch]_vars

\* the latch is still set after a call made while it was set returned
C8_Witness ==
  status.targetReached /\ ev.call \in {"start", "stop", "config"} /\ ev.wasTarget

\* C9: while a position stays OPEN its stopLoss never decreases if it is
\* LONG and never increases if it is SHORT
C9_MonotonicStop ==
  [][\A i \in 1..Len(positions) :
       (/\ i <= Len(bot'.state.positions)
        /\ bot'.state.positions[i].id = positions[i].id
        /\ positions[i].status = "OPEN"
        /\ bot'.state.positions[i].status = "OPEN")
       => IF positions[i].type = "LONG"
          THEN bot'.state.positions[i].stopLoss >= positions[i].stopLoss
          ELSE bot'.state.positions[i].stopLoss <= positions[i].stopLoss]_vars

\* an OPEN position whose stop has been trailed past its entry price
C9_Witness ==
  \E i \in openIndices(positions) :
    IF positions[i].type = "LONG"
    THEN positions[i].stopLoss > positions[i].entryPrice
    ELSE positions[i].stopLoss < positions[i].entryPrice

\* C10: a start() made while isRunning is true returns false and leaves no
\* second interval behind
C10_StartWhileRunningFails ==
  (ev.call = "start" /\ ev.wasRunning) => (ev.ret = "false" /\ bot.leaked = 0)

\* C11: a stop() made while isRunning is false returns false and leaves
\* currentBalance and state.trades unchanged
C11_StopWhenNotRunning ==
  [][(ev'.call = "stop" /\ ~ev'.wasRunning) =>
       /\ ev'.ret = "false"
       /\ bot'.state.status.currentBalance = status.currentBalance
       /\ bot'.state.trades = trades]_vars

\* C13: when stop() returns, no position of state.positions is OPEN
C13_StopClosesAll ==
  (ev.call = "stop" /\ ev.ret # "none") => openIndices(positions) = {}

\* C14: no trading cycle begins in the state in which stop() has returned
C14_NoCycleAfterStop ==
  [][~(ev.call = "stop" /\ ev.ret # "none" /\ ticks' = ticks + 1)]_vars

\* C17: an OPEN position whose currentPrice has crossed its stop or target
\* (LONG: price <= stopLoss or price >= takeProfit; SHORT: price >= stopLoss
\* or price <= takeProfit) is being closed: a management pass or a stop() is
\* suspended in closePosition for it; after a completed pass there is none
C17_StopTargetExit ==
  \A i \in openIndices(positions) :
    LET p == positions[i]
        crossed == IF p.type = "LONG"
                   THEN p.currentPrice <= p.stopLoss \/ p.currentPrice >= p.takeProfit
                   ELSE p.currentPrice >= p.stopLoss \/ p.currentPrice <= p.takeProfit
    IN crossed => \E k \in 1..Len(tasks) :
                    tasks[k].pc = "closeOrder" /\ tasks[k].ref = <<bot.epoch, i>>

\* a management pass has closed a position at a price beyond its stop or target
C17_Witness ==
  \E i \in 1..Len(positions), j \in 1..Len(trades) :
    LET p == positions[i]
    IN /\ p.status = "CLOSED"
       /\ trades[j].position = p.id
       /\ trades[j].reason = "Smart exit condition triggered"
       /\ IF p.type = "LONG"
          THEN p.currentPrice <= p.stopLoss \/ p.currentPrice >= p.takeProfit
          ELSE p.currentPrice >= p.stopLoss \/ p.currentPrice <= p.takeProfit

\* C15: a cycle decides to open a position (it enters openSmartPosition and
\* takes the next position id) only if no other position is OPEN,
\* confidence >= 85, the signal is STRONG_BUY or STRONG_SELL, riskLevel is
\* VERY_LOW or LOW, probability >= 0.8, maxDrawdown < 0.10,
\* currentBalance > 0.95 * initialCapital and the history holds >= 50 samples
C15_OpenOnlyIf ==
  [][bot'.nextId # bot.nextId =>
       LET sa == ev'.sa
           after == bot'.state
       IN /\ \A i \in openIndices(after.positions) :
               after.positions[i].id = bot.nextId
          /\ sa.confidence >= 85
          /\ sa.signal \in {"STRONG_BUY", "STRONG_SELL"}
          /\ sa.riskLevel \in {"VERY_LOW", "LOW"}
          /\ sa.probability >= 80
          /\ status.maxDrawdown[1] * 10 < status.maxDrawdown[2]
          /\ after.status.currentBalance * 100 > after.config.initialCapital * 95
          /\ bot'.priceHistory >= 50]_vars

\* the cycle of the last step has opened a position
C15_Witness ==
  /\ ev.sa.signal \in {"STRONG_BUY", "STRONG_SELL"}
  /\ \E i \in openIndices(positions) :
       /\ positions[i].id = bot.nextId - 1
       /\ positions[i].entryPrice = ev.sa.entryPrice
       /\ positions[i].age = 0

\* C18: the management pass of a cycle closes an OPEN position when its age
\* exceeds the timeframe of the cycle's signal, or the signal is reversed
\* relative to its side, or riskLevel is HIGH or EXTREME, or confidence < 50;
\* and it leaves the position OPEN when neither one of these holds nor the
\* price is at or beyond its stop or target
C18_SmartExit ==
  [][(ticks' = ticks + 1 /\ ev'.sa.entryPrice > 0) =>
       \A i \in openIndices(positions) :
         LET sa == ev'.sa
             before == positions[i]
             after == bot'.state.positions[i]
             crossed ==
               IF after.type = "LONG"
               THEN \/ after.currentPrice <= after.stopLoss
                    \/ after.currentPrice >= after.takeProfit
               ELSE \/ after.currentPrice >= after.stopLoss
                    \/ after.currentPrice <= after.takeProfit
             reversed ==
               \/ before.type = "LONG" /\ sa.signal \in {"SELL", "STRONG_SELL"}
               \/ before.type = "SHORT" /\ sa.signal \in {"BUY", "STRONG_BUY"}
             smartExit ==
               \/ before.age > sa.timeframe
               \/ reversed
               \/ sa.riskLevel \in {"HIGH", "EXTREME"}
               \/ sa.confidence < 50
         IN /\ after.currentPrice = bot'.state.marketData.price
            /\ smartExit => after.status = "CLOSED"
            /\ (~smartExit /\ ~crossed) => after.status = "OPEN"]_vars

\* the cycle of the last step closed a position whose price was between its
\* stop and its target
C18_Witness ==
  /\ ev.sa.entryPrice > 0
  /\ \E i \in 1..Len(positions), j \in 1..Len(trades) :
       LET p == positions[i]
       IN /\ p.status = "CLOSED"
          /\ trades[j].position = p.id
          /\ trades[j].reason = "Smart exit condition triggered"
          /\ p.currentPrice = ev.sa.entryPrice
          /\ IF p.type = "LONG"
             THEN p.stopLoss < p.currentPrice /\ p.currentPrice < p.takeProfit
             ELSE p.takeProfit < p.currentPrice /\ p.currentPrice < p.stopLoss

\* C19: every Trade recorded by a management pass has as exitPrice the market
\* price of the cycle that closed the position, and every Trade has profit
\* (exitPrice - entryPrice) * quantity if LONG and
\* (entryPrice - exitPrice) * quantity if SHORT
C19_ExitAtTickPrice ==
  [][\A j \in (Len(trades) + 1)..Len(bot'.state.trades) :
       LET trade == bot'.state.trades[j]
       IN /\ trade.reason = "Smart exit condition triggered" =>
               trade.exitPrice = ev'.sa.entryPrice
          /\ trade.profit =
               IF trade.type = "LONG"
               THEN ((trade.exitPrice - trade.entryPrice) \div PS) * trade.quantity
               ELSE ((trade.entryPrice - trade.exitPrice) \div PS) * trade.quantity]_vars

\* C20: the Trade of a position closed by a management pass has reason
\* "stop/target hit" when the price was at or beyond its stop or target, and
\* "time limit reached" when the price was between them and its age exceeded
\* the timeframe of the cycle's signal
C20_TradeReason ==
  [][(ticks' = ticks + 1 /\ ev'.sa.entryPrice > 0) =>
       \A i \in openIndices(positions) :
         \A j \in (Len(trades) + 1)..Len(bot'.state.trades) :
           LET after == bot'.state.positions[i]
               trade == bot'.state.trades[j]
               crossed ==
                 IF after.type = "LONG"
                 THEN \/ after.currentPrice <= after.stopLoss
                      \/ after.currentPrice >= after.takeProfit
                 ELSE \/ after.currentPrice >= after.stopLoss
                      \/ after.currentPrice <= after.takeProfit
           IN trade.position = after.id =>
                /\ crossed => trade.reason = "stop/target hit"
                /\ (~crossed /\ positions[i].age > ev'.sa.timeframe) =>
                     trade.reason = "time limit reached"]_vars

\* C12: after a reset(), getState() returns the initial configuration:
\* currentBalance = initialCapital, positions, trades and actions empty,
\* isRunning and targetReached false, totalProfit, tradesCount, winRate and
\* maxDrawdown zero
C12_ResetRoundTrip ==
  [][bot'.epoch # bot.epoch => getState(bot') = initializeState]_vars

\* C16: a cycle whose open-evaluation declines to open a position, also
\* because a position is already OPEN, adds an ANALYSIS entry to the action log
C16_DeclineLogged ==
  [][(ticks' = ticks + 1 /\ ev'.sa.entryPrice > 0 /\ bot'.nextId = bot.nextId) =>
       \E n \in 1..Len(bot'.state.actions) :
         /\ Len(bot'.state.actions) - n >= Len(bot.state.actions)
         /\ bot'.state.actions[n].type = "ANALYSIS"]_vars

\* C21: status.currentBalance and status.totalProfit change only in a step
\* that appends a Trade; every other operation except reset() leaves both
\* unchanged
C21_BalanceFrame ==
  [][(\/ bot'.state.status.currentBalance # status.currentBalance
      \/ bot'.state.status.totalProfit # status.totalProfit) =>
       \/ Len(bot'.state.trades) > Len(trades)
       \/ bot'.epoch # bot.epoch]_vars

\* C22: a tick that finds totalProfit >= targetProfit sets targetReached,
\* stops the bot and logs it, and neither fetches market data nor analyses,
\* manages or opens a position
C22_TargetFirst ==
  [][(ticks' = ticks + 1 /\ status.totalProfit >= config.targetProfit) =>
       /\ bot'.state.status.targetReached
       /\ ~bot'.state.status.isRunning
       /\ bot'.intervalId = 0
       /\ bot.logged =>
            /\ Len(bot'.state.actions) > Len(bot.state.actions)
            /\ bot'.state.actions[1].type = "TARGET_REACHED"
       /\ bot'.state.marketData = bot.state.marketData
       /\ bot'.priceHistory = bot.priceHistory
       /\ ev'.sa = NoSa
       /\ bot'.nextId = bot.nextId
       /\ \A j \in (Len(trades) + 1)..Len(bot'.state.trades) :
            bot'.state.trades[j].reason = "Manual stop"]_vars

\* a tick latched the target and logged it, closing the position that was open
C22_Witness ==
  /\ status.targetReached
  /\ bot.logged
  /\ bot.state.actions[1].type = "TARGET_REACHED"
  /\ \E j \in 1..Len(trades) : trades[j].reason = "Manual stop"

C25_BrokerFailureNonFatal ==
  [][LET added == Len(bot'.state.actions) - Len(bot.state.actions)
         failureLogged ==
           \E n \in 1..added :
             bot'.state.actions[n] = [type |-> "BROKER_ERROR", success |-> FALSE]
         last == bot'.state.positions[Len(bot'.state.positions)]
     IN /\ ev'.failed = "placeOrder" =>
             /\ failureLogged
             /\ Len(bot'.state.positions) = Len(positions) + 1
             /\ last.status = "OPEN"
             /\ ~last.brokerTicket
        /\ ev'.failed = "closeOrder" =>
             /\ failureLogged
             /\ Len(bot'.state.trades) > Len(trades)
             /\ LET id == bot'.state.trades[Len(trades) + 1].position
                IN /\ \A i \in 1..Len(bot'.state.positions) :
                        bot'.state.positions[i].id = id =>
                          bot'.state.positions[i].status = "CLOSED"
                   /\ \A e \in 1..Len(bot'.old) :
                        \A i \in 1..Len(bot'.old[e]) :
                          bot'.old[e][i].id = id =>
                            bot'.old[e][i].status = "CLOSED"]_vars

\* the broker's closeOrder threw and the position is CLOSED with its Trade
C25_Witness ==
  /\ ev.failed = "closeOrder"
  /\ \E i \in 1..Len(positions), j \in 1..Len(trades) :
       /\ positions[i].status = "CLOSED"
       /\ positions[i].brokerTicket
       /\ trades[j].position = positions[i].id
  /\ \E n \in 1..Len(bot.state.actions) :
       bot.state.actions[n] = [type |-> "BROKER_ERROR", success |-> FALSE]

\* C26: when the broker's market-data call fails the cycle goes on with a
\* synthetic sample, analysing and managing in the same tick, and the failure
\* is logged as an action with success = false
C26_DataFailureLogged ==
  [][ev'.failed = "marketData" =>
       /\ bot'.state.marketData.price \in Prices
       /\ ev'.sa.entryPrice = bot'.state.marketData.price
       /\ \E n \in 1..(Len(bot'.state.actions) - Len(bot.state.actions)) :
            ~bot'.state.actions[n].success]_vars

\* C27: the history windows never exceed their capacity (200 samples in
\* SmartTradingEngine, 50 in MarketAnalyzer), the arrays of one window have
\* equal lengths, and an update keeps the earlier samples in their order,
\* dropping the oldest one when the window was full
C27_HistoryWindow ==
  [][LET e == unit.engine
         a == unit.analyzer
         e2 == unit'.engine
         a2 == unit'.analyzer
         Front(seq) == SubSeq(seq, 1, Len(seq) - 1)
         Fifo(old, new, cap) ==
           Front(new) = IF Len(old) < cap THEN old ELSE Tail(old)
     IN /\ Len(e2.priceHistory) <= 200
        /\ \A f \in DOMAIN e2 : Len(e2[f]) = Len(e2.priceHistory)
        /\ Len(a2.priceHistory) <= 50
        /\ Len(a2.volumeHistory) = Len(a2.priceHistory)
        /\ unit'.enginePushes # unit.enginePushes =>
             \A f \in DOMAIN e2 : Fifo(e[f], e2[f], 200)
        /\ unit'.analyzerPushes # unit.analyzerPushes =>
             \A f \in DOMAIN a2 : Fifo(a[f], a2[f], 50)]_vars

\* both windows are full and have dropped samples
C27_Witness ==
  /\ unit.kind = "history"
  /\ Len(unit.engine.priceHistory) = 200
  /\ unit.enginePushes > HistoryMargin
  /\ unit.engine.timestampHistory[200] = unit.enginePushes
  /\ Len(unit.analyzer.priceHistory) = 50
  /\ unit.analyzerPushes > HistoryMargin

\* C30: the position size the RiskManager returns is never below 0.001, also
\* when the stop distance is zero because the ATR is zero
C30_MinPositionSize ==
  unit.fn # "none" => ~FracGreater(<<1, 1000>>, unit.positionSize)

\* C28: analyzeMarket on fewer than 50 samples returns the default signal
\* (HOLD, NEUTRAL, confidence 20, stopLoss = price * 0.985, takeProfit =
\* price * 1.045, timeframe 15) for every price, and on 50 or more samples it
\* does not take the default path
C28_DefaultAnalysis ==
  unit.fn = "analyzeMarket" =>
    /\ unit.len < 50 =>
         /\ unit.sa.signal = "HOLD"
         /\ unit.sa.direction = "NEUTRAL"
         /\ unit.sa.confidence = 20
         /\ unit.sa.stopLoss * 1000 = unit.price * 985
         /\ unit.sa.takeProfit * 1000 = unit.price * 1045
         /\ unit.sa.timeframe = 15
    /\ unit.len >= 50 =>
         /\ unit.sa.timeframe \in {20, 30, 45}
         /\ unit.sa.confidence = Min(100, Abs(unit.in.score - 50) * 2)
         /\ unit.sa.riskLevel = unit.in.risk

\* a history of 49 samples got the default signal although the score was strong
C28_Witness ==
  /\ unit.fn = "analyzeMarket"
  /\ unit.len = 49
  /\ unit.in.score = 95
  /\ unit.sa.signal = "HOLD"
  /\ unit.sa.confidence = 20

\* C29: with confidence = min(100, |s - 0.5| * 200), the signal is STRONG_BUY
\* if s >= 0.8 and confidence >= 80, else BUY if s >= 0.65 and confidence >=
\* 65, else STRONG_SELL if s <= 0.2 and confidence >= 80, else SELL if
\* s <= 0.35 and confidence >= 65, else HOLD, with the matching direction; the
\* timeframe is 45 if confidence > 80, 30 if confidence > 60, else 20
C29_SignalDerivation ==
  unit.fn = "generateSmartAnalysis" =>
    LET s == unit.in.score
        dev == IF s >= 50 THEN s - 50 ELSE 50 - s
        confidence == IF dev * 2 > 100 THEN 100 ELSE dev * 2
    IN /\ unit.sa.confidence = confidence
       /\ unit.sa.signal =
            CASE s >= 80 /\ confidence >= 80 -> "STRONG_BUY"
              [] ~(s >= 80 /\ confidence >= 80) /\ s >= 65 /\ confidence >= 65 -> "BUY"
              [] s < 65 /\ s <= 20 /\ confidence >= 80 -> "STRONG_SELL"
              [] s < 65 /\ ~(s <= 20 /\ confidence >= 80)
                   /\ s <= 35 /\ confidence >= 65 -> "SELL"
              [] OTHER -> "HOLD"
       /\ unit.sa.direction =
            CASE unit.sa.signal \in {"STRONG_BUY", "BUY"} -> "BULLISH"
              [] unit.sa.signal \in {"STRONG_SELL", "SELL"} -> "BEARISH"
              [] OTHER -> "NEUTRAL"
       /\ unit.sa.timeframe =
            IF confidence > 80 THEN 45 ELSE IF confidence > 60 THEN 30 ELSE 20

\* a score of 0.85 gave BUY: above 0.8, but its confidence of 70 is below 80
C29_Witness ==
  /\ unit.fn = "generateSmartAnalysis"
  /\ unit.in.score = 85
  /\ unit.sa.signal = "BUY"
  /\ unit.sa.confidence = 70
  /\ unit.sa.timeframe = 30

\* C31: a snapshot that getState() has returned does not change when the bot
\* later mutates its state
C31_SnapshotStable ==
  bot.snap.epoch # 0 => snapshotNow(bot) = bot.snap.taken

\* C32: after reset() the bot is like a freshly constructed one: the engine's
\* price history is empty and no timer from before the reset is left
C32_ResetLikeFresh ==
  [][bot'.epoch # bot.epoch =>
       /\ bot'.priceHistory = 0
       /\ bot'.intervalId + bot'.leaked = 0]_vars

\* C33: a position is pushed onto state.positions only while isRunning is true
C33_OpenOnlyWhileRunning ==
  [][\A i \in 1..Len(bot'.state.positions) :
       (/\ bot'.state.positions[i].status = "OPEN"
        /\ \A j \in 1..Len(positions) :
             positions[j].id # bot'.state.positions[i].id) =>
         status.isRunning /\ bot'.state.status.isRunning]_vars

\* C34: once targetReached is true, until reset() no position is opened and no
\* Trade is appended
C34_FrozenAfterTarget ==
  [][(status.targetReached /\ bot'.epoch = bot.epoch) =>
       /\ bot'.nextId = bot.nextId
       /\ Len(bot'.state.positions) = Len(positions)
       /\ bot'.state.trades = trades]_vars

\* C36: a position is opened with its stop on the losing side and its target
\* on the winning side of the entry, three times as far away as the stop, and
\* a trailing-stop update leaves the stop of a LONG strictly below and of a
\* SHORT strictly above the current price
C36_StopAndTargetSides ==
  [][\A i \in 1..Len(bot'.state.positions) :
       LET q == bot'.state.positions[i]
           isNew == \A j \in 1..Len(positions) : positions[j].id # q.id
           moved == \E j \in 1..Len(positions) :
                      positions[j].id = q.id /\ positions[j].stopLoss # q.stopLoss
       IN /\ isNew =>
               /\ IF q.type = "LONG"
                  THEN q.stopLoss < q.entryPrice /\ q.entryPrice < q.takeProfit
                  ELSE q.takeProfit < q.entryPrice /\ q.entryPrice < q.stopLoss
               /\ Abs(q.takeProfit - q.entryPrice)
                    = 3 * Abs(q.entryPrice - q.stopLoss)
          /\ moved =>
               IF q.type = "LONG"
               THEN q.stopLoss < bot'.state.marketData.price
               ELSE q.stopLoss > bot'.state.marketData.price]_vars

\* a LONG and a SHORT position have been opened and the stop of one of them
\* has been trailed away from where it was set at the opening
C36_Witness ==
  /\ \E i \in 1..Len(positions) : positions[i].type = "LONG"
  /\ \E i \in 1..Len(positions) : positions[i].type = "SHORT"
  /\ \E i \in 1..Len(positions) :
       3 * Abs(positions[i].entryPrice - positions[i].stopLoss)
         # Abs(positions[i].takeProfit - positions[i].entryPrice)

\* C37: between resets maxDrawdown never decreases and is never negative, and
\* once it has reached 0.10 no cycle decides to open a position
C37_DrawdownLatch ==
  [][bot'.epoch = bot.epoch =>
       /\ ~FracGreater(status.maxDrawdown, bot'.state.status.maxDrawdown)
       /\ bot'.state.status.maxDrawdown[1] >= 0
       /\ bot'.state.status.maxDrawdown[2] > 0
       /\ status.maxDrawdown[1] * 10 >= status.maxDrawdown[2] =>
            bot'.nextId = bot.nextId]_vars

\* maxDrawdown is at least 0.10, the balance is above 95% of the initial
\* capital again, and a cycle whose signal met every other condition has just
\* ended without a decision to open
C37_Witness ==
  /\ status.maxDrawdown[1] * 10 >= status.maxDrawdown[2]
  /\ status.currentBalance * 100 > config.initialCapital * 95
  /\ openIndices(positions) = {}
  /\ ev.sa.entryPrice > 0
  /\ ev.sa.confidence >= 85
  /\ ev.sa.signal \in {"STRONG_BUY", "STRONG_SELL"}
  /\ ev.sa.riskLevel = "LOW"
  /\ bot.priceHistory >= MinHistory
  /\ ~status.targetReached

\* C38: a management pass changes the stopLoss of a position only if its
\* profit fraction at the current price is above 1% and the new stop lies on
\* the favourable side of the old one
C38_StopUnchanged ==
  [][\A i \in 1..Len(positions) :
       LET p == positions[i]
           q == bot'.state.positions[i]
           currentPrice == bot'.state.marketData.price
       IN (/\ i <= Len(bot'.state.positions)
           /\ q.id = p.id
           /\ q.stopLoss # p.stopLoss)
          => IF p.type = "LONG"
             THEN /\ (currentPrice - p.entryPrice) * 100 > p.entryPrice
                  /\ q.stopLoss > p.stopLoss
             ELSE /\ (p.entryPrice - currentPrice) * 100 > p.entryPrice
                  /\ q.stopLoss < p.stopLoss]_vars

\* a cycle has managed an OPEN position that is more than 1% in profit and
\* whose stop, trailed earlier, is tighter than the candidate of this cycle
C38_Witness ==
  /\ ev.sa.entryPrice > 0
  /\ \E i \in openIndices(positions) :
       LET p == positions[i]
           currentPrice == bot.state.marketData.price
           d == trailDistance(p, currentPrice, ev.sa)
       IN /\ p.currentPrice = currentPrice
          /\ IF p.type = "LONG"
             THEN /\ (currentPrice - p.entryPrice) * 100 > p.entryPrice
                  /\ currentPrice - d < p.stopLoss
             ELSE /\ (p.entryPrice - currentPrice) * 100 > p.entryPrice
                  /\ currentPrice + d > p.stopLoss

\* C39: a trailed stop lies at the distance
\* (|entry - initialStop| / 2) * (1 + 2 * profitFraction) from the current
\* price, entry and initialStop being those the position was opened with
\* (the initial stop is a third of the target's distance away from the entry)
C39_TrailFromOwnStop ==
  [][\A i \in 1..Len(positions) :
       LET p == positions[i]
           q == bot'.state.positions[i]
           currentPrice == bot'.state.marketData.price
           initialDistance == Abs(p.takeProfit - p.entryPrice) \div 3
           entry == p.entryPrice \div PS
           gain == Abs(currentPrice - p.entryPrice) \div PS
           own == (initialDistance * (entry + 2 * gain)) \div (2 * entry)
       IN (/\ i <= Len(bot'.state.positions)
           /\ q.id = p.id
           /\ q.stopLoss # p.stopLoss)
          => Abs(currentPrice - q.stopLoss) = own]_vars

-----------------------------------------------------------------------------
(* The bot with its broker under fair scheduling *)

\* the step in which a timer that is set fires a cycle
TimerFires ==
  /\ bot.intervalId + bot.leaked > 0
  /\ ticks < MaxTicks
  /\ ticks' = ticks + 1

\* a timer that is set fires again, and a broker call that is awaited settles
Fairness ==
  /\ WF_ticks(TimerFires)
  /\ WF_vars(ConnectReturns)
  /\ WF_vars(AccountInfoReturns)
  /\ \/ []<>(\A k \in 1..Len(tasks) : tasks[k].pc # "marketData")
     \/ []<><<MarketDataReturns>>_vars
  /\ WF_vars(PlaceOrderReturns)
  /\ WF_vars(CloseOrderReturns)

SpecFair == Init /\ [][Next]_vars /\ Fairness

\* C35: an OPEN position does not stay OPEN forever: a management pass or
\* stop() closes it (the ticks explored end after MaxTicks cycles)
C35_EventuallyClosed ==
  (openIndices(positions) # {})
    ~> (openIndices(positions) = {} \/ ticks = MaxTicks)

====
